---------------------------- MODULE Spec2Model ----------------------------
(***************************************************************************)
(* A model of AKCoreSampler (AudioKit Core, Sampler/AKCoreSampler.cpp):    *)
(* the sample bank and key map, the note lifecycle (playNote, stopNote,    *)
(* sustainPedal, play, stop), stopAllVoices / restartVoices and render.    *)
(*                                                                         *)
(* SamplerVoice and SustainPedalLogic are collaborators whose code is not  *)
(* part of the translated file; they are modelled from their contracts     *)
(* (sections 4.4 and 4.5 of the specification).  A voice is reduced to its *)
(* note number and its envelope stage; its DSP state is left out, and the  *)
(* results of prepToGetSamples / getSamples are inputs of render.          *)
(*                                                                         *)
(* Every operation records in `calls` the calls it made (play, stop and    *)
(* the voice methods), so that "voice i was restarted" or "no voice        *)
(* received a call" are statements about the state.                        *)
(***************************************************************************)
EXTENDS Integers, Sequences, FiniteSets, TLC

\* ------------------------------------------------------------------ bounds

\* number of voices (64 in the program; scaled down for checking)
MAX_POLYPHONY == 2

\* number of MIDI note numbers (128 in the program; scaled down)
MIDI_NOTENUMBERS == 3

\* the largest velocity a note event carries (127 in the program; scaled down)
MaxVelocity == 2

\* the largest number of sample buffers loaded into the bank
MaxBank == 2

\* the largest bank the sample lookup is exercised on
MaxLookupBank == 3

Voices == 0 .. (MAX_POLYPHONY - 1)
Keys == 0 .. (MIDI_NOTENUMBERS - 1)
Velocities == 1 .. MaxVelocity

\* a null KeyMappedSampleBuffer* / SamplerVoice*
NullBuf == 0
NullVoice == -1

VARIABLES
    sampleBufferList,     \* data->sampleBufferList: the bank, in insertion order
    keyMap,               \* data->keyMap[nn]: bank positions (1-based), in order
    isKeyMapValid,
    voice,                \* data->voice[i]: [noteNumber, stage]
    keysDown,             \* pedalLogic: keys physically held
    keysSustaining,       \* pedalLogic: keys released while the pedal was down
    pedalIsDown,          \* pedalLogic: the pedal
    isMonophonic,
    isLegato,
    stoppingAllVoices,
    lastPlayedNoteNumber,
    calls,                \* the calls made by the last operation of either
                          \* thread (the waiting loop of stopAllVoices makes
                          \* none and leaves it alone)
    ctl,                  \* control thread: where it is in stopAllVoices
    rnd                   \* render thread: where it is in render

vars == << sampleBufferList, keyMap, isKeyMapValid, voice, keysDown,
           keysSustaining, pedalIsDown, isMonophonic, isLegato,
           stoppingAllVoices, lastPlayedNoteNumber, calls, ctl, rnd >>

bankVars == << sampleBufferList, keyMap, isKeyMapValid >>
modeVars == << isMonophonic, isLegato >>

\* ------------------------------------------------------------------ helpers

Min(S) == CHOOSE x \in S : \A y \in S : x <= y

\* one recorded call: a voice method on voice v, or play / stop (voice = -1);
\* arg is the buffer of a voice call, the velocity of play, 1/0 for stop's
\* immediate flag
Call(op, v, key, arg) == [op |-> op, voice |-> v, key |-> key, arg |-> arg]

IdleVoice == [noteNumber |-> -1, stage |-> "idle"]


\* NOTE_HZ(n): 12-tone equal temperament, 440 * 2^((n-69)/12), in milli-Hz,
\* each semitone a factor of 1.0595 (integer arithmetic, rounded down)
RECURSIVE NOTE_HZ(_)
NOTE_HZ(midiNoteNumber) ==
    IF midiNoteNumber = 0 THEN 8176
    ELSE (NOTE_HZ(midiNoteNumber - 1) * 10595) \div 10000

\* data->tuningTable[i] = NOTE_HZ(i), as the constructor fills it
tuningTable == [nn \in Keys |-> NOTE_HZ(nn)]

\* the sample descriptors a load may carry: the key range and the velocity
\* range of the buffer (all keys, the softer velocities)
Descriptors ==
    { [minimumNoteNumber |-> 0, maximumNoteNumber |-> MIDI_NOTENUMBERS - 1,
       minimumVelocity |-> 0, maximumVelocity |-> 1] }

\* ------------------------------------------------- SustainPedalLogic (4.5)
\* The operations work on a record st of the state an operation changes:
\*   st.voice, st.calls, st.last (lastPlayedNoteNumber), st.down, st.sus

isAnyKeyDown(st) == st.down # {}

isNoteSustaining(st, nn) == nn \in st.sus

firstKeyDown(st) == IF st.down = {} THEN -1 ELSE Min(st.down)

\* (a slip: the sustaining mark of the key is left standing)
keyDownAction_keepsSustaining(st, nn) ==
    [st EXCEPT !.down = @ \cup {nn}]

keyDownAction(st, nn) ==
    [st EXCEPT !.down = @ \cup {nn}, !.sus = @ \ {nn}]

\* the state after keyUpAction; its result is keyUpResult
keyUpAction(st, nn) ==
    [st EXCEPT !.down = @ \ {nn},
               !.sus = IF pedalIsDown THEN @ \cup {nn} ELSE @]

keyUpResult == ~pedalIsDown

\* ------------------------------------------------------ SamplerVoice (4.4)

Record(st, c) == [st EXCEPT !.calls = Append(@, c)]

start(st, v, key, pBuf) ==
    Record([st EXCEPT !.voice[v] = [noteNumber |-> key, stage |-> "playing"]],
           Call("start", v, key, pBuf))

restartSameNote(st, v, pBuf) ==
    Record([st EXCEPT !.voice[v].stage = "playing"],
           Call("restartSameNote", v, st.voice[v].noteNumber, pBuf))

restartNewNote(st, v, key, pBuf) ==
    Record([st EXCEPT !.voice[v] = [noteNumber |-> key, stage |-> "playing"]],
           Call("restartNewNote", v, key, pBuf))

\* the pitch changes, the envelopes go on, the sample stays
restartNewNoteLegato(st, v, key) ==
    Record([st EXCEPT !.voice[v].noteNumber = key],
           Call("restartNewNoteLegato", v, key, NullBuf))

release(st, v) ==
    Record([st EXCEPT !.voice[v].stage = "releasing"],
           Call("release", v, st.voice[v].noteNumber, NullBuf))

voiceStop(st, v) ==
    Record([st EXCEPT !.voice[v] = IdleVoice],
           Call("stop", v, st.voice[v].noteNumber, NullBuf))

\* ------------------------------------------------------------ AKCoreSampler

\* (a slip: a buffer without a velocity range is not accepted as such)
lookupSample_rangedOnly(noteNumber, velocity) ==
    LET bucket == keyMap[noteNumber]
        ok(i) == LET pBuf == sampleBufferList[bucket[i]] IN
                   /\ velocity >= pBuf.minimumVelocity
                   /\ velocity <= pBuf.maximumVelocity
        hits == {i \in 1 .. Len(bucket) : ok(i)}
    IN  IF Len(bucket) = 1 THEN bucket[1]
        ELSE IF hits = {} THEN NullBuf
        ELSE bucket[Min(hits)]

\* lookupSample: the bank position of the chosen buffer, NullBuf for none
lookupSample(noteNumber, velocity) ==
    LET bucket == keyMap[noteNumber]
        ok(i) == LET pBuf == sampleBufferList[bucket[i]] IN
                   \/ pBuf.minimumVelocity < 0 \/ pBuf.maximumVelocity < 0
                   \/ /\ velocity >= pBuf.minimumVelocity
                      /\ velocity <= pBuf.maximumVelocity
        hits == {i \in 1 .. Len(bucket) : ok(i)}
    IN  IF Len(bucket) = 1 THEN bucket[1]
        ELSE IF hits = {} THEN NullBuf
        ELSE bucket[Min(hits)]

\* the key map buildKeyMap computes from the bank
rangeKeyMap(bank) ==
    [nn \in Keys |->
        LET noteFreq == tuningTable[nn]
            inRange(b) == /\ noteFreq >= NOTE_HZ(bank[b].minimumNoteNumber)
                          /\ noteFreq <= NOTE_HZ(bank[b].maximumNoteNumber)
        IN  SelectSeq([b \in 1 .. Len(bank) |-> b], inRange)]

\* the first voice, in index order, whose note number is noteNumber
voicePlayingNote(st, noteNumber) ==
    LET playing == {i \in Voices : st.voice[i].noteNumber = noteNumber}
    IN  IF playing = {} THEN NullVoice ELSE Min(playing)

SetLast(st, noteNumber) == [st EXCEPT !.last = noteNumber]

\* (a slip: the legato test is missing, every note is started afresh)
playMonophonic_neverLegato(st, noteNumber, velocity, anotherKeyWasDown) ==
    LET pBuf == lookupSample(noteNumber, velocity) IN
    IF pBuf = NullBuf THEN st
    ELSE IF st.voice[0].noteNumber >= 0
    THEN SetLast(restartNewNote(st, 0, noteNumber, pBuf), noteNumber)
    ELSE SetLast(start(st, 0, noteNumber, pBuf), noteNumber)

\* play, the monophonic branch: voice[0] is the one and only voice
playMonophonic(st, noteNumber, velocity, anotherKeyWasDown) ==
    LET pBuf == lookupSample(noteNumber, velocity) IN
    IF isLegato /\ anotherKeyWasDown THEN
        IF st.voice[0].noteNumber >= 0
        THEN SetLast(restartNewNoteLegato(st, 0, noteNumber), noteNumber)
        ELSE IF pBuf = NullBuf THEN st
        ELSE SetLast(start(st, 0, noteNumber, pBuf), noteNumber)
    ELSE
        IF pBuf = NullBuf THEN st
        ELSE IF st.voice[0].noteNumber >= 0
        THEN SetLast(restartNewNote(st, 0, noteNumber, pBuf), noteNumber)
        ELSE SetLast(start(st, 0, noteNumber, pBuf), noteNumber)

\* (a slip: the scan for a free voice runs from the top of the pool)
freeVoice_fromTop(st) ==
    LET free == {i \in Voices : st.voice[i].noteNumber < 0}
    IN  IF free = {} THEN NullVoice ELSE CHOOSE i \in free : \A j \in free : j <= i

\* the first voice, in index order, with noteNumber < 0
freeVoice(st) ==
    LET free == {i \in Voices : st.voice[i].noteNumber < 0}
    IN  IF free = {} THEN NullVoice ELSE Min(free)

\* (a slip: with all voices in use the note is still booked as the last played)
playPolyphonic_booksDroppedNote(st, noteNumber, velocity) ==
    LET pBuf == lookupSample(noteNumber, velocity)
        pVoice == voicePlayingNote(st, noteNumber)
        pFree == freeVoice(st)
    IN
    IF pVoice # NullVoice THEN restartSameNote(st, pVoice, pBuf)
    ELSE IF pFree = NullVoice THEN SetLast(st, noteNumber)
    ELSE IF pBuf = NullBuf THEN st
    ELSE SetLast(start(st, pFree, noteNumber, pBuf), noteNumber)

\* play, the polyphonic branch
playPolyphonic(st, noteNumber, velocity) ==
    LET pBuf == lookupSample(noteNumber, velocity)
        pVoice == voicePlayingNote(st, noteNumber)
        pFree == freeVoice(st)
    IN
    IF pVoice # NullVoice THEN restartSameNote(st, pVoice, pBuf)
    ELSE IF pFree = NullVoice THEN st
    ELSE IF pBuf = NullBuf THEN st
    ELSE SetLast(start(st, pFree, noteNumber, pBuf), noteNumber)

\* (a slip: the mode is not looked at, every note is allocated from the pool)
play_alwaysPolyphonic(st, noteNumber, velocity, anotherKeyWasDown) ==
    IF stoppingAllVoices THEN st
    ELSE IF ~isKeyMapValid \/ Len(sampleBufferList) = 0 THEN st
    ELSE playPolyphonic(st, noteNumber, velocity)

\* (a slip: the stoppingAllVoices test is missing)
play_ignoresStopping(st, noteNumber, velocity, anotherKeyWasDown) ==
    IF ~isKeyMapValid \/ Len(sampleBufferList) = 0 THEN st
    ELSE IF isMonophonic
    THEN playMonophonic(st, noteNumber, velocity, anotherKeyWasDown)
    ELSE playPolyphonic(st, noteNumber, velocity)

play(st, noteNumber, velocity, anotherKeyWasDown) ==
    IF stoppingAllVoices THEN st
    ELSE IF ~isKeyMapValid \/ Len(sampleBufferList) = 0 THEN st
    ELSE IF isMonophonic
    THEN playMonophonic(st, noteNumber, velocity, anotherKeyWasDown)
    ELSE playPolyphonic(st, noteNumber, velocity)

\* (a slip: an immediate stop only releases the voice)
stop_releasesWhenImmediate(st, noteNumber, immediate) ==
    LET pVoice == voicePlayingNote(st, noteNumber) IN
    IF pVoice = NullVoice THEN st ELSE release(st, pVoice)

stop(st, noteNumber, immediate) ==
    LET pVoice == voicePlayingNote(st, noteNumber)
        key == firstKeyDown(st)
        pBuf == lookupSample(key, 100)
    IN
    IF pVoice = NullVoice THEN st
    ELSE IF immediate THEN voiceStop(st, pVoice)
    ELSE IF isMonophonic THEN
        IF key < 0 THEN release(st, pVoice)
        ELSE IF isLegato THEN restartNewNoteLegato(st, pVoice, key)
        ELSE IF pBuf = NullBuf THEN st
        ELSE IF st.voice[pVoice].noteNumber >= 0
        THEN restartNewNote(st, pVoice, key, pBuf)
        ELSE start(st, pVoice, key, pBuf)
    ELSE release(st, pVoice)

\* play and stop as playNote, stopNote, sustainPedal and render call them:
\* the call itself is recorded too
callPlay(st, noteNumber, velocity, anotherKeyWasDown) ==
    play(Record(st, Call("play", -1, noteNumber, velocity)),
         noteNumber, velocity, anotherKeyWasDown)

callStop(st, noteNumber, immediate) ==
    stop(Record(st, Call("stop", -1, noteNumber, IF immediate THEN 1 ELSE 0)),
         noteNumber, immediate)

playNote(st, noteNumber, velocity) ==
    callPlay(keyDownAction(st, noteNumber), noteNumber, velocity, isAnyKeyDown(st))

\* (a slip: the result of keyUpAction is not looked at)
stopNote_ignoresPedal(st, noteNumber, immediate) ==
    IF immediate THEN callStop(st, noteNumber, immediate)
    ELSE callStop(keyUpAction(st, noteNumber), noteNumber, immediate)

stopNote(st, noteNumber, immediate) ==
    IF immediate THEN callStop(st, noteNumber, immediate)
    ELSE IF keyUpResult THEN callStop(keyUpAction(st, noteNumber), noteNumber, immediate)
    ELSE keyUpAction(st, noteNumber)


\* sustainPedal(false): the loop over the note numbers from nn upwards
RECURSIVE pedalUpLoop(_, _)
pedalUpLoop(st, nn) ==
    IF nn >= MIDI_NOTENUMBERS THEN st
    ELSE pedalUpLoop(IF isNoteSustaining(st, nn) THEN callStop(st, nn, FALSE) ELSE st,
                     nn + 1)

\* pedalLogic.pedalUp(): no key is sustaining any more
pedalUp(st) == [st EXCEPT !.sus = {}]

sustainPedal(st, down) ==
    IF down THEN st ELSE pedalUp(pedalUpLoop(st, 0))

\* what a voice reports to render in one block: "ended" is prepToGetSamples
\* returning true, "ranOut" is getSamples returning true
Outcomes == {"continue", "ended", "ranOut"}

\* the condition of render's if, for voice i: the calls it makes, in order
renderCalls(st, i, outcome) ==
    IF stoppingAllVoices THEN st
    ELSE IF outcome = "ended"
    THEN Record(st, Call("prepToGetSamples", i, st.voice[i].noteNumber, NullBuf))
    ELSE Record(Record(st, Call("prepToGetSamples", i, st.voice[i].noteNumber, NullBuf)),
                Call("getSamples", i, st.voice[i].noteNumber, NullBuf))

\* (a slip: a sample that ran out does not retire the voice)
renderRetires_neverRunout(outcome, allowSampleRunout) ==
    \/ stoppingAllVoices
    \/ outcome = "ended"

\* (a slip: stoppingAllVoices is not part of the condition)
renderRetires_ignoresStopping(outcome, allowSampleRunout) ==
    \/ outcome = "ended"
    \/ (outcome = "ranOut" /\ allowSampleRunout)

\* ... and its value
renderRetires(outcome, allowSampleRunout) ==
    \/ stoppingAllVoices
    \/ outcome = "ended"
    \/ (outcome = "ranOut" /\ allowSampleRunout)

\* render's loop over the voices from i upwards
RECURSIVE renderLoop(_, _, _, _)
renderLoop(st, i, outcomes, allowSampleRunout) ==
    IF i >= MAX_POLYPHONY THEN st
    ELSE LET nn == st.voice[i].noteNumber
             tested == renderCalls(st, i, outcomes[i])
         IN  renderLoop(IF nn < 0 THEN st
                        ELSE IF renderRetires(outcomes[i], allowSampleRunout)
                        THEN stopNote(tested, nn, TRUE)
                        ELSE tested,
                        i + 1, outcomes, allowSampleRunout)

render(st, outcomes) == renderLoop(st, 0, outcomes, ~(isMonophonic /\ isLegato))

\* ------------------------------------------------------------------ state

\* the state an operation starts from, with no call made yet
Now ==
    [voice |-> voice, calls |-> << >>, last |-> lastPlayedNoteNumber,
     down |-> keysDown, sus |-> keysSustaining]

Commit(st) ==
    /\ voice' = st.voice
    /\ calls' = st.calls
    /\ lastPlayedNoteNumber' = st.last
    /\ keysDown' = st.down
    /\ keysSustaining' = st.sus

CtlRun == [pc |-> "run", i |-> 0, noteStillSounding |-> FALSE]
RndIdle == [pc |-> "idle", i |-> 0, nn |-> -1, allowSampleRunout |-> TRUE]

\* the control thread is not inside stopAllVoices
Running == ctl.pc # "stopAllVoices"

\* no voice sounds, no key is held or sustaining and the pedal is up
Quiet ==
    /\ \A i \in Voices : voice[i].noteNumber < 0
    /\ keysDown = {}
    /\ keysSustaining = {}
    /\ ~pedalIsDown

\* The constructor.  lastPlayedNoteNumber is not initialised by it: it holds
\* any value.
Init ==
    /\ sampleBufferList = << >>
    /\ keyMap = [nn \in Keys |-> << >>]
    /\ isKeyMapValid = FALSE
    /\ voice = [i \in Voices |-> IdleVoice]
    /\ keysDown = {}
    /\ keysSustaining = {}
    /\ pedalIsDown = FALSE
    /\ isMonophonic = FALSE
    /\ isLegato = FALSE
    /\ stoppingAllVoices = FALSE
    /\ lastPlayedNoteNumber \in {-1} \cup Keys
    /\ calls = << >>
    /\ ctl = CtlRun
    /\ rnd = RndIdle

\* ---------------------------------------------------------------- actions

LoadSampleData(sdd) ==
    /\ Running
    /\ Len(sampleBufferList) < MaxBank
    /\ sampleBufferList' = Append(sampleBufferList, sdd)
    /\ calls' = << >>
    /\ ctl' = CtlRun
    /\ UNCHANGED << keyMap, isKeyMapValid, voice, keysDown, keysSustaining,
                    pedalIsDown, modeVars, stoppingAllVoices,
                    lastPlayedNoteNumber, rnd >>

BuildKeyMap ==
    /\ Running
    /\ keyMap' = rangeKeyMap(sampleBufferList)
    /\ isKeyMapValid' = TRUE
    /\ calls' = << >>
    /\ ctl' = CtlRun
    /\ UNCHANGED << sampleBufferList, voice, keysDown, keysSustaining,
                    pedalIsDown, modeVars, stoppingAllVoices,
                    lastPlayedNoteNumber, rnd >>

PlayNote(noteNumber, velocity) ==
    /\ Running
    /\ Commit(playNote(Now, noteNumber, velocity))
    /\ ctl' = CtlRun
    /\ UNCHANGED << bankVars, pedalIsDown, modeVars, stoppingAllVoices, rnd >>

StopNote(noteNumber, immediate) ==
    /\ Running
    /\ Commit(stopNote(Now, noteNumber, immediate))
    /\ ctl' = CtlRun
    /\ UNCHANGED << bankVars, pedalIsDown, modeVars, stoppingAllVoices, rnd >>

SustainPedal(down) ==
    /\ Running
    /\ Commit(sustainPedal(Now, down))
    /\ pedalIsDown' = down
    /\ ctl' = CtlRun
    /\ UNCHANGED << bankVars, modeVars, stoppingAllVoices, rnd >>

\* isMonophonic and isLegato are parameters the control thread writes; here it
\* writes them while the sampler is quiet
SetMonophonic(b) ==
    /\ Running
    /\ Quiet
    /\ b # isMonophonic
    /\ isMonophonic' = b
    /\ calls' = << >>
    /\ ctl' = CtlRun
    /\ UNCHANGED << bankVars, voice, keysDown, keysSustaining, pedalIsDown,
                    isLegato, stoppingAllVoices, lastPlayedNoteNumber, rnd >>

SetLegato(b) ==
    /\ Running
    /\ Quiet
    /\ b # isLegato
    /\ isLegato' = b
    /\ calls' = << >>
    /\ ctl' = CtlRun
    /\ UNCHANGED << bankVars, voice, keysDown, keysSustaining, pedalIsDown,
                    isMonophonic, stoppingAllVoices, lastPlayedNoteNumber, rnd >>

\* stopAllVoices, statement by statement: set the flag ...
StopAllVoicesBegin ==
    /\ Running
    /\ stoppingAllVoices' = TRUE
    /\ ctl' = [pc |-> "stopAllVoices", i |-> 0, noteStillSounding |-> FALSE]
    /\ calls' = << >>
    /\ UNCHANGED << bankVars, voice, keysDown, keysSustaining, pedalIsDown,
                    modeVars, lastPlayedNoteNumber, rnd >>

\* (a slip: the flag is assigned, not accumulated, so only the last voice counts)
StopAllVoicesScan_lastOnly ==
    /\ ctl.pc = "stopAllVoices"
    /\ ctl.i < MAX_POLYPHONY
    /\ ctl' = [ctl EXCEPT !.i = @ + 1,
                          !.noteStillSounding = voice[ctl.i].noteNumber >= 0]
    /\ UNCHANGED << calls, bankVars, voice, keysDown, keysSustaining, pedalIsDown,
                    modeVars, stoppingAllVoices, lastPlayedNoteNumber, rnd >>

\* ... look at voice i ...
StopAllVoicesScan ==
    /\ ctl.pc = "stopAllVoices"
    /\ ctl.i < MAX_POLYPHONY
    /\ ctl' = [ctl EXCEPT !.i = @ + 1,
                          !.noteStillSounding = @ \/ voice[ctl.i].noteNumber >= 0]
    /\ UNCHANGED << calls, bankVars, voice, keysDown, keysSustaining, pedalIsDown,
                    modeVars, stoppingAllVoices, lastPlayedNoteNumber, rnd >>

\* ... and go round again, or return
StopAllVoicesTest ==
    /\ ctl.pc = "stopAllVoices"
    /\ ctl.i = MAX_POLYPHONY
    /\ ctl' = IF ctl.noteStillSounding
              THEN [pc |-> "stopAllVoices", i |-> 0, noteStillSounding |-> FALSE]
              ELSE [pc |-> "returned", i |-> 0, noteStillSounding |-> FALSE]
    /\ UNCHANGED << calls, bankVars, voice, keysDown, keysSustaining, pedalIsDown,
                    modeVars, stoppingAllVoices, lastPlayedNoteNumber, rnd >>

RestartVoices ==
    /\ Running
    /\ stoppingAllVoices
    /\ stoppingAllVoices' = FALSE
    /\ ctl' = CtlRun
    /\ calls' = << >>
    /\ UNCHANGED << bankVars, voice, keysDown, keysSustaining, pedalIsDown,
                    modeVars, lastPlayedNoteNumber, rnd >>

\* one whole call of render, between two steps of the control thread
Render(outcomes) ==
    /\ rnd.pc = "idle"
    /\ \A i \in Voices : voice[i].noteNumber < 0 => outcomes[i] = "continue"
    /\ Commit(render(Now, outcomes))
    /\ UNCHANGED << bankVars, pedalIsDown, modeVars, stoppingAllVoices, ctl, rnd >>

Control ==
    \/ \E sdd \in Descriptors : LoadSampleData(sdd)
    \/ BuildKeyMap
    \/ \E nn \in Keys, velocity \in Velocities : PlayNote(nn, velocity)
    \/ \E nn \in Keys, immediate \in BOOLEAN : StopNote(nn, immediate)
    \/ \E down \in BOOLEAN : SustainPedal(down)
    \/ \E b \in BOOLEAN : SetMonophonic(b)
    \/ \E b \in BOOLEAN : SetLegato(b)
    \/ StopAllVoicesBegin
    \/ StopAllVoicesScan
    \/ StopAllVoicesTest
    \/ RestartVoices

Next ==
    \/ Control
    \/ \E outcomes \in [Voices -> Outcomes] : Render(outcomes)

\* Render calls fall between the events of the control thread (the discipline
\* of section 5); stopAllVoices waits for them.
Spec == Init /\ [][Next]_vars

\* ------------------------------------------------- render, step by step

\* render is entered: allowSampleRunout is computed
RenderBegin ==
    /\ rnd.pc = "idle"
    /\ rnd' = [pc |-> "loop", i |-> 0, nn |-> -1,
               allowSampleRunout |-> ~(isMonophonic /\ isLegato)]
    /\ calls' = << >>
    /\ UNCHANGED << bankVars, voice, keysDown, keysSustaining, pedalIsDown,
                    modeVars, stoppingAllVoices, lastPlayedNoteNumber, ctl >>

\* int nn = pVoice->noteNumber; if (nn >= 0)
RenderLoad ==
    /\ rnd.pc = "loop"
    /\ rnd.i < MAX_POLYPHONY
    /\ rnd' = IF voice[rnd.i].noteNumber >= 0
              THEN [rnd EXCEPT !.pc = "test", !.nn = voice[rnd.i].noteNumber]
              ELSE [rnd EXCEPT !.i = @ + 1]
    /\ calls' = << >>
    /\ UNCHANGED << bankVars, voice, keysDown, keysSustaining, pedalIsDown,
                    modeVars, stoppingAllVoices, lastPlayedNoteNumber, ctl >>

\* the condition: stoppingAllVoices || prepToGetSamples || (getSamples && ...)
RenderTest(outcome) ==
    /\ rnd.pc = "test"
    /\ calls' = renderCalls(Now, rnd.i, outcome).calls
    /\ rnd' = IF renderRetires(outcome, rnd.allowSampleRunout)
              THEN [rnd EXCEPT !.pc = "retire"]
              ELSE [rnd EXCEPT !.pc = "loop", !.i = @ + 1, !.nn = -1]
    /\ UNCHANGED << bankVars, voice, keysDown, keysSustaining, pedalIsDown,
                    modeVars, stoppingAllVoices, lastPlayedNoteNumber, ctl >>

\* stopNote(nn, true)
RenderRetire ==
    /\ rnd.pc = "retire"
    /\ Commit(stopNote(Now, rnd.nn, TRUE))
    /\ rnd' = [rnd EXCEPT !.pc = "loop", !.i = @ + 1, !.nn = -1]
    /\ UNCHANGED << bankVars, pedalIsDown, modeVars, stoppingAllVoices, ctl >>

RenderReturn ==
    /\ rnd.pc = "loop"
    /\ rnd.i = MAX_POLYPHONY
    /\ rnd' = RndIdle
    /\ calls' = << >>
    /\ UNCHANGED << bankVars, voice, keysDown, keysSustaining, pedalIsDown,
                    modeVars, stoppingAllVoices, lastPlayedNoteNumber, ctl >>

RenderThread ==
    \/ RenderBegin
    \/ RenderLoad
    \/ \E outcome \in Outcomes : RenderTest(outcome)
    \/ RenderRetire
    \/ RenderReturn

\* the events of the control thread: notes, the pedal, stopAllVoices and
\* restartVoices
NoteEvents ==
    \/ \E nn \in Keys, velocity \in Velocities : PlayNote(nn, velocity)
    \/ \E nn \in Keys, immediate \in BOOLEAN : StopNote(nn, immediate)

PedalEvents == \E down \in BOOLEAN : SustainPedal(down)

StopAllVoices ==
    \/ StopAllVoicesBegin
    \/ StopAllVoicesScan
    \/ StopAllVoicesTest
    \/ RestartVoices

\* a sampler set up to play: one sample loaded, the key map built, the mode
\* chosen
InitPlaying ==
    /\ sampleBufferList \in [1 .. 1 -> Descriptors]
    /\ keyMap = rangeKeyMap(sampleBufferList)
    /\ isKeyMapValid = TRUE
    /\ voice = [i \in Voices |-> IdleVoice]
    /\ keysDown = {}
    /\ keysSustaining = {}
    /\ pedalIsDown = FALSE
    /\ isMonophonic \in BOOLEAN
    /\ isLegato \in BOOLEAN
    /\ stoppingAllVoices = FALSE
    /\ lastPlayedNoteNumber \in {-1} \cup Keys
    /\ calls = << >>
    /\ ctl = CtlRun
    /\ rnd = RndIdle

NextConc == NoteEvents \/ PedalEvents \/ StopAllVoices \/ RenderThread

\* The control thread and the render thread run side by side: an event of the
\* control thread may fall between any two steps of render.
SpecConc == InitPlaying /\ [][NextConc]_vars


\* The two threads, with the scheduling the claims about waiting assume: the
\* render thread keeps being scheduled, and so does the loop of stopAllVoices.
\* The control thread sends note events (the pedal stays up).
NextFair == NoteEvents \/ StopAllVoices \/ RenderThread

SpecFair ==
    /\ InitPlaying
    /\ [][NextFair]_vars
    /\ WF_vars(RenderThread)
    /\ WF_vars(StopAllVoicesScan \/ StopAllVoicesTest)

\* ------------------------------------------------ the envelope's end

\* the render thread tests voice i in its release stage, and the voice
\* reports its end, through prepToGetSamples or through getSamples
RenderTestEnd(i) ==
    /\ rnd.pc = "test"
    /\ rnd.i = i
    /\ voice[i].stage = "releasing"
    /\ \E outcome \in {"ended", "ranOut"} : RenderTest(outcome)

\* the control thread sends its events while the render thread is between
\* two blocks (the discipline of section 5)
ControlBetweenBlocks ==
    /\ rnd.pc = "idle"
    /\ (NoteEvents \/ PedalEvents)

NextDrain == ControlBetweenBlocks \/ RenderThread

\* Note and pedal events with whole render calls between them; render keeps
\* being called, and the envelope of every released voice comes to its end.
SpecDrain ==
    /\ InitPlaying
    /\ [][NextDrain]_vars
    /\ WF_vars(RenderThread)
    /\ \A i \in Voices : SF_vars(RenderTestEnd(i))

\* ------------------------------------------------ the sample lookup

\* the descriptors of the banks the lookup is exercised on: buffers mapped to
\* all keys or to key 0 only, without a velocity range (both limits or one of
\* them negative) or with the range of the softer or of the louder velocities
LookupDescriptors ==
    { [minimumNoteNumber |-> 0, maximumNoteNumber |-> kr,
       minimumVelocity |-> vr[1], maximumVelocity |-> vr[2]] :
        kr \in {0, MIDI_NOTENUMBERS - 1},
        vr \in { << -1, -1 >>, << -1, 1 >>, << 0, 1 >>, << 2, MaxVelocity >> } }

\* a sampler with a bank of one to MaxLookupBank such buffers loaded and the
\* key map built, in monophonic mode (every note-on looks its sample up)
InitLookup ==
    /\ sampleBufferList \in
            UNION { [1 .. n -> LookupDescriptors] : n \in 1 .. MaxLookupBank }
    /\ keyMap = rangeKeyMap(sampleBufferList)
    /\ isKeyMapValid = TRUE
    /\ voice = [i \in Voices |-> IdleVoice]
    /\ keysDown = {}
    /\ keysSustaining = {}
    /\ pedalIsDown = FALSE
    /\ isMonophonic = TRUE
    /\ isLegato = FALSE
    /\ stoppingAllVoices = FALSE
    /\ lastPlayedNoteNumber = -1
    /\ calls = << >>
    /\ ctl = CtlRun
    /\ rnd = RndIdle

NextLookup ==
    \/ \E nn \in Keys, velocity \in Velocities : PlayNote(nn, velocity)
    \/ \E nn \in Keys : StopNote(nn, TRUE)

\* Notes played on banks of every shape: each note-on applies lookupSample.
SpecLookup == InitLookup /\ [][NextLookup]_vars

\* ------------------------------------------------ loading samples

\* the descriptors a caller may hand to loadSampleData, well-formed or not:
\* channelCount and sampleCount (ints), and the start and end points (0 for
\* "not given")
LoadDescriptors ==
    [ minimumNoteNumber : {0}, maximumNoteNumber : {MIDI_NOTENUMBERS - 1},
      minimumVelocity : {0}, maximumVelocity : {1},
      channelCount : 0 .. 3, sampleCount : -1 .. 2,
      startPoint : 0 .. 2, endPoint : 0 .. 2 ]

NextLoad ==
    \/ \E sdd \in LoadDescriptors : LoadSampleData(sdd)
    \/ BuildKeyMap

\* A bank being loaded, from the constructor on.
SpecLoad == Init /\ [][NextLoad]_vars

\* ------------------------------------------------ mode changes at any time

\* isMonophonic and isLegato written by the control thread at any moment,
\* also while voices sound
ChangeMonophonic(b) ==
    /\ Running
    /\ b # isMonophonic
    /\ isMonophonic' = b
    /\ calls' = << >>
    /\ ctl' = CtlRun
    /\ UNCHANGED << bankVars, voice, keysDown, keysSustaining, pedalIsDown,
                    isLegato, stoppingAllVoices, lastPlayedNoteNumber, rnd >>

ChangeLegato(b) ==
    /\ Running
    /\ b # isLegato
    /\ isLegato' = b
    /\ calls' = << >>
    /\ ctl' = CtlRun
    /\ UNCHANGED << bankVars, voice, keysDown, keysSustaining, pedalIsDown,
                    isMonophonic, stoppingAllVoices, lastPlayedNoteNumber, rnd >>

ModeChanges ==
    \/ \E b \in BOOLEAN : ChangeMonophonic(b)
    \/ \E b \in BOOLEAN : ChangeLegato(b)

NextModes ==
    \/ NoteEvents
    \/ PedalEvents
    \/ ModeChanges
    \/ StopAllVoices
    \/ \E outcomes \in [Voices -> Outcomes] : Render(outcomes)

\* One thread of events: notes, the pedal, changes of mode at any moment,
\* stopAllVoices / restartVoices, and whole render calls between them.
SpecModes == InitPlaying /\ [][NextModes]_vars

\* ------------------------------------------------------------------ claims

AllVoicesIdle == \A i \in Voices : voice[i].noteNumber < 0

\* C1: at the moment stopAllVoices returns, every voice is idle
\* (noteNumber < 0), whatever the render thread and the earlier note and
\* pedal events did.
C1_StopAllVoicesLeavesAllIdle ==
    ctl.pc = "returned" => AllVoicesIdle

\* stopAllVoices has returned after render stopped a sounding voice during
\* the wait
C1_Witness ==
    /\ ctl.pc = "returned"
    /\ \E n \in 1 .. Len(calls) : calls[n].op = "stop" /\ calls[n].voice >= 0

\* C2: stopAllVoices terminates when the render thread keeps running: once
\* the control thread is in its waiting loop it eventually returns; and a
\* render pass that tests an active voice with the flag set retires it.
C2_StopAllVoicesTerminates ==
    /\ (ctl.pc = "stopAllVoices") ~> (ctl.pc = "returned")
    /\ [][(rnd.pc = "test" /\ stoppingAllVoices /\ rnd'.pc # "test")
            => rnd'.pc = "retire"]_vars

\* stopAllVoices returned although a voice was sounding when it looked first
C2_Witness ==
    /\ ctl.pc = "returned"
    /\ \E n \in 1 .. Len(calls) : calls[n].op = "stop" /\ calls[n].voice >= 0
    /\ rnd.pc = "loop"
    /\ rnd.i = MAX_POLYPHONY


\* C3: no key is both down and sustaining, after any sequence of playNote,
\* stopNote (immediate or not), sustainPedal and render calls.
C3_NeverDownAndSustaining ==
    \A k \in Keys : ~(k \in keysDown /\ k \in keysSustaining)

\* a key that was sustaining has been pressed again with the pedal still down,
\* while another key sustains
C3_Witness ==
    /\ pedalIsDown
    /\ keysSustaining # {}
    /\ Len(calls) >= 1
    /\ calls[1].op = "play"
    /\ calls[1].key \in keysDown
    /\ \E n \in 2 .. Len(calls) : calls[n].op = "restartSameNote"

\* the step is playNote(k, v): it is the only operation that records play
PlayNoteStep(k, v) ==
    /\ Len(calls') >= 1
    /\ calls'[1] = Call("play", -1, k, v)
    /\ PlayNote(k, v)

IsStopCall(c) == c.op = "stop" /\ c.voice = -1
IsVoiceCall(c) == c.voice >= 0
StopCalls(cs) == SelectSeq(cs, IsStopCall)
VoiceCalls(cs) == SelectSeq(cs, IsVoiceCall)

\* C4: stopNote(k, false) with the pedal down makes no call (the voice
\* playing k is neither released nor stopped) and marks k as sustaining; the
\* next sustainPedal(false) calls stop(k, false) for every sustaining key, in
\* key order, which in polyphonic mode releases the voice playing it, and
\* leaves no key sustaining and the pedal up.
C4_SustainDeferral ==
    [][ /\ \A k \in Keys :
            (pedalIsDown /\ pedalIsDown' /\ StopNote(k, FALSE))
                => /\ voice' = voice
                   /\ calls' = << >>
                   /\ k \in keysSustaining'
        /\ (~pedalIsDown' /\ SustainPedal(FALSE))
            => LET stops == StopCalls(calls') IN
               /\ Len(stops) = Cardinality(keysSustaining)
               /\ \A n \in 1 .. Len(stops) :
                    /\ stops[n].key \in keysSustaining
                    /\ stops[n].arg = 0
                    /\ \A m \in 1 .. (n - 1) : stops[m].key < stops[n].key
               /\ ~isMonophonic =>
                    \A i \in Voices :
                        (/\ voice[i].noteNumber \in keysSustaining
                         /\ \A j \in 0 .. (i - 1) :
                                voice[j].noteNumber # voice[i].noteNumber)
                            => voice'[i] = [noteNumber |-> voice[i].noteNumber,
                                            stage |-> "releasing"]
               /\ keysSustaining' = {}
               /\ ~pedalIsDown'
      ]_vars

\* the pedal has come up and released the voices of two sustaining keys
C4_Witness ==
    /\ ~pedalIsDown
    /\ keysSustaining = {}
    /\ ~isMonophonic
    /\ Len(StopCalls(calls)) = 2
    /\ \A n \in 1 .. 2 : StopCalls(calls)[n].arg = 0
    /\ \A i \in Voices : voice[i].stage = "releasing"

\* what C5 says of one playNote(k, v) in polyphonic mode
PolyphonicAllocation(k, v) ==
    IF \E i \in Voices : voice[i].noteNumber = k
    THEN \E i \in Voices :
            /\ voice[i].noteNumber = k
            /\ \A j \in 0 .. (i - 1) : voice[j].noteNumber # k
            /\ VoiceCalls(calls') =
                   << Call("restartSameNote", i, k, lookupSample(k, v)) >>
            /\ voice' = [voice EXCEPT ![i].stage = "playing"]
    ELSE (\E i \in Voices : voice[i].noteNumber < 0)
            => \E i \in Voices :
                /\ voice[i].noteNumber < 0
                /\ \A j \in 0 .. (i - 1) : voice[j].noteNumber >= 0
                /\ VoiceCalls(calls') = << Call("start", i, k, lookupSample(k, v)) >>
                /\ voice' = [voice EXCEPT ![i] =
                                [noteNumber |-> k, stage |-> "playing"]]

\* C5 as stated: in polyphonic mode with a valid key map, playNote(k, v)
\* restarts the voice already playing k and touches no other, or else starts
\* the lowest idle voice and touches no other.
C5_Original ==
    [][ \A k \in Keys, v \in Velocities :
            (PlayNoteStep(k, v) /\ ~isMonophonic /\ isKeyMapValid)
                => PolyphonicAllocation(k, v) ]_vars

\* C5, amended: the same, when stoppingAllVoices is clear and the bank is
\* not empty, and - for a key no voice is playing - when lookupSample finds a
\* buffer for (k, v).
C5_PolyphonicAllocation ==
    [][ \A k \in Keys, v \in Velocities :
            (/\ PlayNoteStep(k, v) /\ ~isMonophonic /\ isKeyMapValid
             /\ ~stoppingAllVoices
             /\ Len(sampleBufferList) > 0
             /\ ((\E i \in Voices : voice[i].noteNumber = k)
                    \/ lookupSample(k, v) # NullBuf))
                => PolyphonicAllocation(k, v) ]_vars

\* voice 1 has been started for a new key while voice 0 plays another
C5_Witness ==
    /\ ~isMonophonic
    /\ Len(calls) = 2
    /\ calls[1].op = "play"
    /\ calls[2].op = "start"
    /\ calls[2].voice = 1
    /\ voice[0].noteNumber >= 0
    /\ voice[0].noteNumber # voice[1].noteNumber

\* C6: in polyphonic mode, with every voice active and none playing k,
\* playNote(k, v) changes no voice, calls none, and leaves
\* lastPlayedNoteNumber as it was.
C6_PoolExhaustion ==
    [][ \A k \in Keys, v \in Velocities :
            (/\ PlayNoteStep(k, v) /\ ~isMonophonic
             /\ \A i \in Voices : voice[i].noteNumber >= 0 /\ voice[i].noteNumber # k)
                => /\ voice' = voice
                   /\ VoiceCalls(calls') = << >>
                   /\ lastPlayedNoteNumber' = lastPlayedNoteNumber ]_vars

\* a note that would have played (flag clear, map valid, sample found) has
\* been dropped with all voices in use
C6_Witness ==
    /\ ~isMonophonic
    /\ ~stoppingAllVoices
    /\ isKeyMapValid
    /\ Len(sampleBufferList) > 0
    /\ Len(calls) = 1
    /\ calls[1].op = "play"
    /\ lookupSample(calls[1].key, calls[1].arg) # NullBuf
    /\ \A i \in Voices :
        voice[i].noteNumber >= 0 /\ voice[i].noteNumber # calls[1].key
    /\ lastPlayedNoteNumber # calls[1].key

StartOrRestart(c) ==
    c.op \in {"start", "restartNewNote", "restartNewNoteLegato", "restartSameNote"}

\* C7 as stated: every playNote(k, v) that starts or restarts a voice leaves
\* lastPlayedNoteNumber equal to k.
C7_Original ==
    [][ \A k \in Keys, v \in Velocities :
            (/\ PlayNoteStep(k, v)
             /\ \E n \in 1 .. Len(calls') : StartOrRestart(calls'[n]))
                => lastPlayedNoteNumber' = k ]_vars

\* C8 as stated: a load clears the valid flag of the key map.
C8_Original ==
    [][ \A sdd \in Descriptors : (sampleBufferList' # sampleBufferList /\ LoadSampleData(sdd))
                => ~isKeyMapValid' ]_vars

\* C9 as stated: when lookupSample(k, v) returns none, playNote(k, v) is
\* dropped in every mode: no voice is called and no voice changes.
C9_Original ==
    [][ \A k \in Keys, v \in Velocities :
            (PlayNoteStep(k, v) /\ lookupSample(k, v) = NullBuf)
                => /\ voice' = voice
                   /\ VoiceCalls(calls') = << >> ]_vars

\* C10: a playNote(k, v) that arrives while the key map is invalid, the bank
\* is empty or stoppingAllVoices is set calls no voice, changes no voice and
\* leaves lastPlayedNoteNumber; of the sampler's state only the pedal logic's
\* key bookkeeping changes (k is down).
C10_DroppedNoteEvent ==
    [][ \A k \in Keys, v \in Velocities :
            (/\ PlayNoteStep(k, v)
             /\ (~isKeyMapValid \/ Len(sampleBufferList) = 0 \/ stoppingAllVoices))
                => /\ voice' = voice
                   /\ VoiceCalls(calls') = << >>
                   /\ lastPlayedNoteNumber' = lastPlayedNoteNumber
                   /\ keysDown' = keysDown \cup {k}
                   /\ UNCHANGED << bankVars, modeVars, stoppingAllVoices,
                                   pedalIsDown >> ]_vars

\* a note that would otherwise have played has been dropped because
\* stoppingAllVoices is set
C10_Witness ==
    /\ stoppingAllVoices
    /\ isKeyMapValid
    /\ Len(sampleBufferList) > 0
    /\ Len(calls) = 1
    /\ calls[1].op = "play"
    /\ lookupSample(calls[1].key, calls[1].arg) # NullBuf
    /\ calls[1].key \in keysDown
    /\ AllVoicesIdle

\* what C11 says of one playNote(k, v): voice[0] is retargeted by
\* restartNewNoteLegato, which is the only call a voice receives, and keeps
\* its envelope stage
LegatoRetarget(k) ==
    /\ VoiceCalls(calls') = << Call("restartNewNoteLegato", 0, k, NullBuf) >>
    /\ voice' = [voice EXCEPT ![0].noteNumber = k]

C12_Original ==
    \A i \in Voices :
        (voice[i].stage = "releasing") ~> (voice[i].stage # "releasing")

\* C12, amended: the same in polyphonic and in monophonic non-legato mode,
\* where a sample that ran out retires the voice; and in every mode, when
\* prepToGetSamples reports the end of a voice, render leaves that voice idle.
C12_ReleasedVoicesDrain ==
    /\ \A i \in Voices :
        (voice[i].stage = "releasing" /\ ~(isMonophonic /\ isLegato))
            ~> (voice[i].stage # "releasing")
    /\ [][ (/\ rnd.pc = "retire"
            /\ calls = << Call("prepToGetSamples", rnd.i, rnd.nn, NullBuf) >>
            /\ RenderRetire)
                => voice'[rnd.i] = IdleVoice ]_vars

\* render has retired a voice whose key had been let go (it is neither down
\* nor sustaining)
C12_Witness ==
    /\ ~isMonophonic
    /\ AllVoicesIdle
    /\ rnd.pc = "loop"
    /\ Len(calls) = 2
    /\ calls[1].op = "stop" /\ calls[1].voice = -1 /\ calls[1].arg = 1
    /\ calls[2] = Call("stop", rnd.i - 1, calls[1].key, NullBuf)
    /\ calls[1].key \notin (keysDown \cup keysSustaining)

\* the buffers (bank positions) in the bucket of key k
Bucket(k) == {keyMap[k][n] : n \in 1 .. Len(keyMap[k])}

VelocityAgnostic(b) ==
    sampleBufferList[b].minimumVelocity < 0 \/ sampleBufferList[b].maximumVelocity < 0

Qualifies(b, v) ==
    \/ VelocityAgnostic(b)
    \/ /\ sampleBufferList[b].minimumVelocity <= v
       /\ v <= sampleBufferList[b].maximumVelocity

\* C13: on a non-empty bucket lookupSample(k, v) returns the only buffer when
\* there is exactly one (whatever its velocity range); otherwise the first
\* buffer in bank insertion order that is velocity-agnostic or whose range
\* contains v, and none when no buffer qualifies.  In particular, when a
\* velocity-agnostic buffer stands before every ranged one, a
\* velocity-agnostic buffer - the first of the bucket - is returned for any v.
C13_LookupLaw ==
    \A k \in Keys, v \in Velocities :
        Bucket(k) # {} =>
            /\ Cardinality(Bucket(k)) = 1 => lookupSample(k, v) \in Bucket(k)
            /\ Cardinality(Bucket(k)) > 1 =>
                LET q == {b \in Bucket(k) : Qualifies(b, v)} IN
                /\ q = {} => lookupSample(k, v) = NullBuf
                /\ q # {} => lookupSample(k, v) = Min(q)
            /\ (\E a \in Bucket(k) :
                    /\ VelocityAgnostic(a)
                    /\ \A b \in Bucket(k) : ~VelocityAgnostic(b) => a < b)
                => lookupSample(k, v) = Min(Bucket(k))

\* a note has been started with the velocity-agnostic second buffer of a
\* bucket of three: the first does not take the velocity, the third would
C13_Witness ==
    /\ Len(calls) = 2
    /\ calls[1].op = "play"
    /\ calls[2].op = "start"
    /\ calls[2].arg = 2
    /\ Len(keyMap[calls[1].key]) = 3
    /\ VelocityAgnostic(2)
    /\ ~Qualifies(1, calls[1].arg)
    /\ ~VelocityAgnostic(3) /\ Qualifies(3, calls[1].arg)

\* a well-formed descriptor (sections 3 and 4.1): a positive sample count,
\* one or two channels, and 0 <= start point < end point <= sample count,
\* where a point that is not given is 0 resp. the sample count
ValidSample(sdd) ==
    LET startPoint == IF sdd.startPoint > 0 THEN sdd.startPoint ELSE 0
        endPoint == IF sdd.endPoint > 0 THEN sdd.endPoint ELSE sdd.sampleCount
    IN  /\ sdd.sampleCount > 0
        /\ sdd.channelCount \in {1, 2}
        /\ startPoint < endPoint
        /\ endPoint <= sdd.sampleCount

\* C14 as stated: a load whose descriptor is not well-formed leaves the bank
\* unchanged (the buffer is not appended).
C14_Original ==
    [][ \A sdd \in LoadDescriptors :
            (~ValidSample(sdd) /\ LoadSampleData(sdd))
                => sampleBufferList' = sampleBufferList ]_vars

\* the step is a render call that retires a voice playing key k: stopNote(k,
\* true) calls stop, which stops the voice
RenderRetiresKey(k) ==
    /\ \E n \in 1 .. Len(calls') : calls'[n] = Call("stop", -1, k, 1)
    /\ \E n \in 1 .. Len(calls') :
        calls'[n].op = "stop" /\ calls'[n].voice >= 0 /\ calls'[n].key = k
    /\ \E outcomes \in [Voices -> Outcomes] : Render(outcomes)

\* C15 as stated: when render retires the voice playing key k, the key is
\* not marked as sustaining afterwards.
C15_Original ==
    [][ \A k \in Keys : RenderRetiresKey(k) => k \notin keysSustaining' ]_vars

\* C16: a render call that runs with stoppingAllVoices set leaves every voice
\* idle and calls neither prepToGetSamples nor getSamples, also when two
\* voices carry the same note number.
C16_RenderStopsAll ==
    [][ (/\ stoppingAllVoices
         /\ \E outcomes \in [Voices -> Outcomes] : Render(outcomes))
            => /\ \A i \in Voices : voice'[i].noteNumber < 0
               /\ \A n \in 1 .. Len(calls') :
                    calls'[n].op \notin {"prepToGetSamples", "getSamples"} ]_vars

\* render, with stoppingAllVoices set, has stopped two voices that carried
\* the same note number
C16_Witness ==
    /\ stoppingAllVoices
    /\ AllVoicesIdle
    /\ \E n, m \in 1 .. Len(calls) :
        /\ n < m
        /\ calls[n].op = "stop" /\ calls[m].op = "stop"
        /\ calls[n].voice >= 0 /\ calls[m].voice > calls[n].voice
        /\ calls[n].key = calls[m].key

\* what C17 says of one stopNote(k, false) on the key voice[0] is playing:
\* with no other key held the voice has been released, otherwise it plays
\* the first key held, retargeted by restartNewNoteLegato (legato) or
\* restarted by restartNewNote
MonophonicNoteOff(k) ==
    LET held == keysDown \ {k} IN
    IF held = {}
    THEN /\ VoiceCalls(calls') = << Call("release", 0, k, NullBuf) >>
         /\ voice'[0] = [noteNumber |-> k, stage |-> "releasing"]
    ELSE /\ voice'[0].noteNumber = Min(held)
         /\ Len(VoiceCalls(calls')) = 1
         /\ VoiceCalls(calls')[1].voice = 0
         /\ VoiceCalls(calls')[1].key = Min(held)
         /\ VoiceCalls(calls')[1].op =
                IF isLegato THEN "restartNewNoteLegato" ELSE "restartNewNote"

\* C17 as stated: in monophonic mode with the pedal up, after stopNote(k,
\* false) on the key the voice is playing, the voice no longer holds k.
C17_Original ==
    [][ \A k \in Keys :
            (/\ isMonophonic /\ ~pedalIsDown /\ ~pedalIsDown'
             /\ voice[0].noteNumber = k
             /\ StopNote(k, FALSE))
                => MonophonicNoteOff(k) ]_vars

\* C18 as stated: under any interleaving of render with playNote / stopNote
\* of the control thread, the voice render stops when it retires is the voice
\* it was processing (voice rnd.i), never another one.
C18_Original ==
    [][ (rnd.pc = "retire" /\ RenderRetire)
            => \A n \in 1 .. Len(calls') :
                (calls'[n].op = "stop" /\ calls'[n].voice >= 0)
                    => calls'[n].voice = rnd.i ]_vars

\* C19 as stated: after any sequence of playNote, stopNote, sustainPedal,
\* render and changes of isMonophonic / isLegato in one thread, no two voices
\* carry the same non-negative note number.
C19_Original ==
    \A i, j \in Voices :
        (i # j /\ voice[i].noteNumber >= 0)
            => voice[i].noteNumber # voice[j].noteNumber

\* C20: with isMonophonic set before the first note and not cleared since
\* (the mode is written only while no voice sounds and no key is held), after
\* any sequence of playNote, stopNote, sustainPedal and render only voice[0]
\* is ever active: all other voices are idle.
C20_MonophonicConfinement ==
    isMonophonic => \A i \in Voices \ {0} : voice[i].noteNumber < 0

\* in monophonic mode a second key has been pressed over a sounding one:
\* voice[0] was restarted with it
C20_Witness ==
    /\ isMonophonic /\ ~isLegato
    /\ Cardinality(keysDown) >= 2
    /\ Len(calls) = 2
    /\ calls[1].op = "play"
    /\ calls[2].op = "restartNewNote" /\ calls[2].voice = 0
    /\ voice[0].noteNumber = calls[1].key

====
